---- MODULE Spec2Model ----
(***************************************************************************)
(* Model of the websocket server of Weylus (src/src/websocket.rs):         *)
(* the control thread that broadcasts the shutdown, the two listeners'     *)
(* polling accept loops, and the per-connection session handlers with      *)
(* their authentication gate and message loop; and of the mouse input      *)
(* device (src/src/input/mouse_device.rs), which the pointer endpoint's     *)
(* stream handler drives.                                                   *)
(*                                                                         *)
(* Threads are interleaved at the granularity of their accesses to shared  *)
(* state (the clients map and its mutex, the shutdown flag, the control    *)
(* channels, the sockets).  The relaxed atomic flag is read and written    *)
(* atomically; a load returns the last value stored.                       *)
(***************************************************************************)
EXTENDS Naturals, Sequences, FiniteSets

\* ------------------------------------------------------------- bounds
\* Connections accepted over the whole run.
MaxConn == 2
\* Inbound frames read by all sessions together over the whole run.
MaxMsgs == 2
\* Failed calls of the platform (bind, set_nonblocking, handshake, peer_addr, split,
\* stream handler factory, shutdown_all, read) over the whole run.
MaxFaults == 1
\* Calls of Mouse::send_event over the whole run.
MaxEvents == 3

\* ------------------------------------------------------------- values
Listeners == {"pointer", "video"}
Sessions == 1..MaxConn
\* SocketAddr of a peer; addresses are numbered in the order of their first appearance.
PeerAddrs == 1..MaxConn

\* Option<String>: None is <<>>, Some(s) is <<s>>.
None == <<>>
Some(s) == <<s>>
Passwords == {None, Some("pw1")}

\* OwnedMessage as <<kind, payload>>.  The session tells a text frame and a close
\* frame from the other kinds (Binary, Ping, Pong), which all take the same arms:
\* Binary stands for them.
Text(p) == <<"Text", p>>
Payloads == {"pw1", "wrong"}
OwnedMessages ==
    {Text(p) : p \in Payloads} \cup
    {<<"Binary", "">>, <<"Close", "">>}

\* A check that takes no frame for a close frame.
is_close_never(msg) == FALSE
is_close(msg) == msg[1] = "Close"
\* is_none that never holds: authed would start false without a password.
is_none_never(opt) == FALSE
is_none(opt) == opt = None
unwrap_or(opt, default) == IF opt = None THEN default ELSE opt[1]

\* Ws2GuiMessage as <<kind, text>>.
Error(t) == <<"Error", t>>
Warning(t) == <<"Warning", t>>
Info(t) == <<"Info", t>>

VARIABLES
    password,      \* run's password argument
    faults,        \* platform failures so far
    ctrlPc,        \* control thread: "recv", "iter" (in the for loop), "done"
    todo,          \* entries of clients the for loop has not visited yet
    lock,          \* holder of the clients mutex: "free" or "ctrl"
    clients,       \* the HashMap as a set of <<peer_addr, ws_sender>> entries
    shutdown,      \* the AtomicBool
    closeCalls,    \* per ws_sender: number of shutdown_all calls made on it
    closeFailed,   \* ws_senders whose shutdown_all returned Err
    ctrlSent,      \* messages the control thread sent on its Sender
    lpc,           \* per listener: "bind", "sleep", "accept", "done"
    server,        \* per listener: "unbound", "failed" (bind), "blocking", "nonblocking"
    lateAccepts,   \* per listener: accept() calls that returned with the flag already true
    listenerSent,  \* per listener: messages it sent on its Sender
    nspawned,      \* session threads spawned so far
    spc,           \* per session: "idle", "setup", "loop", "done"
    owner,         \* per session: the listener that spawned it
    peer_addr,     \* per session: its peer address once retrieved
    authed,        \* per session: the authed local
    received,      \* per session: Ok messages yielded by incoming_messages()
    processed,     \* per session: messages handed to stream_handler.process
    sessionSent,   \* per session: messages it sent on its Sender
    exit,          \* per session: the return statement that ended it, "" while it runs
    target_os,     \* the build of mouse_device.rs: "linux" or "other"
    nevents,       \* calls of Mouse::send_event so far
    lastEvent,     \* the PointerEvent of the last call
    calls,         \* the platform calls the last send_event made, in order
    warned,        \* the warn! of the last send_event, "" if none
    pressed,       \* the host's mouse buttons that are down
    pointer        \* the host's pointer position

ctrlVars == <<ctrlPc, todo, lock, shutdown, closeCalls, closeFailed, ctrlSent>>
listenerVars == <<lpc, server, lateAccepts, listenerSent, nspawned>>
sessionVars ==
    <<spc, owner, peer_addr, authed, received, processed, sessionSent, exit>>
mouseVars == <<target_os, nevents, lastEvent, calls, warned, pressed, pointer>>
vars == <<password, faults, clients, ctrlVars, listenerVars, sessionVars, mouseVars>>

NoAddr == 0
NoListener == "none"

\* PointerEvent: the fields send_event reads.  MOVE stands for the event types
\* that are neither DOWN nor UP, NONE for the buttons that are none of the three.
PointerEventTypes == {"DOWN", "UP", "MOVE"}
Buttons == {"PRIMARY", "AUXILARY", "SECONDARY", "NONE"}
Coords == {0, 1}
PointerEvents ==
    [is_primary : BOOLEAN, event_type : PointerEventTypes, button : Buttons,
     x : Coords, y : Coords]
NoEvent == [is_primary |-> FALSE, event_type |-> "none", button |-> "NONE", x |-> 0, y |-> 0]

\* Mouse::new and the host before the first event.
MouseNew(os) ==
    /\ target_os = os
    /\ nevents = 0
    /\ lastEvent = NoEvent
    /\ calls = <<>>
    /\ warned = ""
    /\ pressed = {}
    /\ pointer = <<0, 0>>

\* run(): the state its threads start from.
ServerInit ==
    /\ faults = 0
    /\ ctrlPc = "recv"
    /\ todo = {}
    /\ lock = "free"
    /\ clients = {}
    /\ shutdown = FALSE
    /\ closeCalls = [s \in Sessions |-> 0]
    /\ closeFailed = {}
    /\ ctrlSent = <<>>
    /\ lpc = [l \in Listeners |-> "bind"]
    /\ server = [l \in Listeners |-> "unbound"]
    /\ lateAccepts = [l \in Listeners |-> 0]
    /\ listenerSent = [l \in Listeners |-> <<>>]
    /\ nspawned = 0
    /\ spc = [s \in Sessions |-> "idle"]
    /\ owner = [s \in Sessions |-> NoListener]
    /\ peer_addr = [s \in Sessions |-> NoAddr]
    /\ authed = [s \in Sessions |-> FALSE]
    /\ received = [s \in Sessions |-> <<>>]
    /\ processed = [s \in Sessions |-> <<>>]
    /\ sessionSent = [s \in Sessions |-> <<>>]
    /\ exit = [s \in Sessions |-> ""]

Init ==
    /\ password \in Passwords
    /\ ServerInit
    /\ MouseNew("linux")

\* A step in which the platform fails or not, within the failures of the run.
Fault(failed) ==
    IF failed
    THEN faults < MaxFaults /\ faults' = faults + 1
    ELSE UNCHANGED faults

\* ------------------------------------------------------------- control thread
\* HashMap::values().
Values(map) == {e[2] : e \in map}
Keys(map) == {e[1] : e \in map}

\* What receiver.recv() returns once the host has sent the command or dropped its Sender.
RecvResults == {"Ok(Shutdown)", "Err"}

\* receiver.recv() returns; both results take the same arm: the clients mutex is taken.
CtrlRecv(res) ==
    /\ ctrlPc = "recv"
    /\ res \in RecvResults
    /\ lock = "free"
    /\ lock' = "ctrl"
    /\ todo' = clients
    /\ ctrlPc' = "iter"
    /\ UNCHANGED <<mouseVars, password, faults, clients, shutdown, closeCalls, closeFailed,
                   ctrlSent, listenerVars, sessionVars>>

\* A loop that a failing shutdown_all leaves (a `?` or a break in the Err arm).
CtrlShutdownAllAbort(e, ok) ==
    /\ ctrlPc = "iter"
    /\ e \in todo
    /\ todo' = IF ok THEN todo \ {e} ELSE {}
    /\ closeCalls' = [closeCalls EXCEPT ![e[2]] = @ + 1]
    /\ Fault(~ok)
    /\ IF ok
       THEN UNCHANGED <<closeFailed, ctrlSent>>
       ELSE /\ closeFailed' = closeFailed \cup {e[2]}
            /\ ctrlSent' = Append(ctrlSent, Error("Could not shutdown websocket"))
    /\ UNCHANGED <<mouseVars, password, clients, ctrlPc, lock, shutdown, listenerVars, sessionVars>>

\* One iteration of `for client in clients.values()`: shutdown_all on the entry.
CtrlShutdownAll(e, ok) ==
    /\ ctrlPc = "iter"
    /\ e \in todo
    /\ todo' = todo \ {e}
    /\ closeCalls' = [closeCalls EXCEPT ![e[2]] = @ + 1]
    /\ Fault(~ok)
    /\ IF ok
       THEN UNCHANGED <<closeFailed, ctrlSent>>
       ELSE /\ closeFailed' = closeFailed \cup {e[2]}
            /\ ctrlSent' = Append(ctrlSent, Error("Could not shutdown websocket"))
    /\ UNCHANGED <<mouseVars, password, clients, ctrlPc, lock, shutdown,
                   listenerVars, sessionVars>>

\* A return that forgets the store.
CtrlStoreNoFlag ==
    /\ ctrlPc = "iter"
    /\ todo = {}
    /\ ctrlPc' = "done"
    /\ lock' = "free"
    /\ UNCHANGED <<mouseVars, password, faults, clients, todo, shutdown, closeCalls, closeFailed,
                   ctrlSent, listenerVars, sessionVars>>

\* The loop is over: shutdown.store(true), return (the guard is dropped).
CtrlStore ==
    /\ ctrlPc = "iter"
    /\ todo = {}
    /\ shutdown' = TRUE
    /\ ctrlPc' = "done"
    /\ lock' = "free"
    /\ UNCHANGED <<mouseVars, password, faults, clients, todo, closeCalls, closeFailed,
                   ctrlSent, listenerVars, sessionVars>>

\* The steps of the control thread that wait for nothing but the scheduler.
CtrlBroadcast ==
    \/ \E e \in todo, ok \in BOOLEAN : CtrlShutdownAll(e, ok)
    \/ CtrlStore

Ctrl ==
    \/ \E res \in RecvResults : CtrlRecv(res)
    \/ CtrlBroadcast

\* ------------------------------------------------------------- listen_websocket
\* Results of Server::bind and of set_nonblocking.
BindOutcomes == {"bind_err", "nonblocking_err", "ok"}

\* A bind failure that is reported without the return: the loop is entered.
BindFallThrough(l, outcome) ==
    /\ lpc[l] = "bind"
    /\ Fault(outcome # "ok")
    /\ lpc' = [lpc EXCEPT ![l] = "sleep"]
    /\ server' = [server EXCEPT ![l] = CASE outcome = "bind_err" -> "failed"
                                         [] outcome = "nonblocking_err" -> "blocking"
                                         [] outcome = "ok" -> "nonblocking"]
    /\ listenerSent' =
           CASE outcome = "bind_err" ->
                    [listenerSent EXCEPT ![l] = Append(@, Error("Failed binding to socket"))]
             [] outcome = "nonblocking_err" ->
                    [listenerSent EXCEPT
                        ![l] = Append(@, Warning("Could not set websocket to non-blocking"))]
             [] outcome = "ok" -> listenerSent
    /\ UNCHANGED <<mouseVars, password, clients, ctrlVars, lateAccepts, nspawned, sessionVars>>

\* Server::bind(addr) with the early return on its failure, then
\* server.set_nonblocking(true), whose failure is reported and the loop entered anyway.
Bind(l, outcome) ==
    /\ lpc[l] = "bind"
    /\ Fault(outcome # "ok")
    /\ lpc' = [lpc EXCEPT ![l] = IF outcome = "bind_err" THEN "done" ELSE "sleep"]
    /\ server' = [server EXCEPT ![l] = CASE outcome = "bind_err" -> "failed"
                                         [] outcome = "nonblocking_err" -> "blocking"
                                         [] outcome = "ok" -> "nonblocking"]
    /\ listenerSent' =
           CASE outcome = "bind_err" ->
                    [listenerSent EXCEPT ![l] = Append(@, Error("Failed binding to socket"))]
             [] outcome = "nonblocking_err" ->
                    [listenerSent EXCEPT
                        ![l] = Append(@, Warning("Could not set websocket to non-blocking"))]
             [] outcome = "ok" -> listenerSent
    /\ UNCHANGED <<mouseVars, password, clients, ctrlVars, lateAccepts, nspawned,
                   sessionVars>>

\* A check that consumes the flag (a swap(false) in place of the load).
PollClearsFlag(l) ==
    /\ lpc[l] = "sleep"
    /\ IF shutdown
       THEN /\ lpc' = [lpc EXCEPT ![l] = "done"]
            /\ shutdown' = FALSE
            /\ listenerSent' =
                   [listenerSent EXCEPT ![l] = Append(@, Info("Shutting down websocket"))]
       ELSE /\ lpc' = [lpc EXCEPT ![l] = "accept"]
            /\ UNCHANGED <<shutdown, listenerSent>>
    /\ UNCHANGED <<mouseVars, password, faults, clients, ctrlPc, todo, lock, closeCalls, closeFailed,
                   ctrlSent, server, lateAccepts, nspawned, sessionVars>>

\* A loop without the check at its top: only the Err(_) arm reads the flag.
PollNoCheck(l) ==
    /\ lpc[l] = "sleep"
    /\ lpc' = [lpc EXCEPT ![l] = "accept"]
    /\ UNCHANGED <<mouseVars, password, faults, clients, ctrlVars, server, lateAccepts, listenerSent,
                   nspawned, sessionVars>>

\* Top of the loop: the sleep, then the check of the flag.
Poll(l) ==
    /\ lpc[l] = "sleep"
    /\ IF shutdown
       THEN /\ lpc' = [lpc EXCEPT ![l] = "done"]
            /\ listenerSent' =
                   [listenerSent EXCEPT ![l] = Append(@, Info("Shutting down websocket"))]
       ELSE /\ lpc' = [lpc EXCEPT ![l] = "accept"]
            /\ UNCHANGED listenerSent
    /\ UNCHANGED <<mouseVars, password, faults, clients, ctrlVars, server, lateAccepts, nspawned,
                   sessionVars>>

CountLate(l) ==
    [lateAccepts EXCEPT ![l] = IF shutdown THEN @ + 1 ELSE @]

\* server.accept() returns Ok(request), a client having connected: the session
\* thread is spawned.
AcceptOk(l) ==
    /\ lpc[l] = "accept"
    /\ nspawned < MaxConn
    /\ nspawned' = nspawned + 1
    /\ spc' = [spc EXCEPT ![nspawned + 1] = "setup"]
    /\ owner' = [owner EXCEPT ![nspawned + 1] = l]
    /\ lpc' = [lpc EXCEPT ![l] = "sleep"]
    /\ lateAccepts' = CountLate(l)
    /\ UNCHANGED <<mouseVars, password, faults, clients, ctrlVars, server, listenerSent,
                   peer_addr, authed, received, processed, sessionSent, exit>>

\* An Err(_) arm that returns whatever the flag is.
AfterAcceptErrReturn(l) == "done"

\* Where the Err(_) arm of the match leaves the listener.
AfterAcceptErr(l) == IF shutdown THEN "done" ELSE "sleep"

\* server.accept() returns Err(_): either no client is waiting, which only a
\* non-blocking socket reports, or a client connected and its request was invalid.
AcceptErr(l, invalid) ==
    /\ lpc[l] = "accept"
    /\ invalid \/ server[l] = "nonblocking"
    /\ lpc' = [lpc EXCEPT ![l] = AfterAcceptErr(l)]
    /\ lateAccepts' = CountLate(l)
    /\ UNCHANGED <<mouseVars, password, faults, clients, ctrlVars, server, listenerSent, nspawned,
                   sessionVars>>

\* The steps of a listener that wait for nothing but the scheduler.
ListenerRun(l) ==
    \/ \E outcome \in BindOutcomes : Bind(l, outcome)
    \/ Poll(l)
    \/ AcceptErr(l, FALSE)

Listener(l) ==
    \/ ListenerRun(l)
    \/ AcceptOk(l)
    \/ AcceptErr(l, TRUE)

\* ------------------------------------------------------------- session thread
\* The results of a setup that fails.
SetupErrs == {"handshake_err", "peer_addr_err", "split_err"}

\* Setup steps passed before the failure.
Passed(outcome) ==
    CASE outcome = "handshake_err" -> {}
      [] outcome = "peer_addr_err" -> {"handshake"}
      [] outcome = "split_err" -> {"handshake", "peer_addr"}

SetupWarning(outcome) ==
    CASE outcome = "handshake_err" -> Warning("Failed to accept client")
      [] outcome = "peer_addr_err" -> Warning("Failed to retrieve client address")
      [] outcome = "split_err" -> Warning("Failed to setup connection")

\* Peer addresses a new connection to s's endpoint can have: not the one of a
\* connection to the same endpoint that is still open; an address not seen before
\* is the next number.
FreeAddrs(s) ==
    {a \in PeerAddrs :
        /\ \A t \in Sessions \ {s} :
              ~(owner[t] = owner[s] /\ spc[t] \notin {"idle", "done"} /\ peer_addr[t] = a)
        /\ \A b \in 1..(a - 1) : \E t \in Sessions \ {s} : peer_addr[t] = b}

\* HashMap::insert: the entry of the key is replaced.
insert(map, k, v) == {e \in map : e[1] # k} \cup {<<k, v>>}

\* A setup that registers the connection as soon as its address is known, before
\* the split.
SessionSetupFailsEarlyInsert(s, outcome, a) ==
    /\ spc[s] = "setup"
    /\ a \in FreeAddrs(s)
    /\ Fault(TRUE)
    /\ peer_addr' = [peer_addr EXCEPT ![s] = IF "peer_addr" \in Passed(outcome) THEN a ELSE @]
    /\ clients' = IF "peer_addr" \in Passed(outcome) /\ lock = "free"
                  THEN insert(clients, a, s)
                  ELSE clients
    /\ spc' = [spc EXCEPT ![s] = "done"]
    /\ sessionSent' = [sessionSent EXCEPT ![s] = Append(@, SetupWarning(outcome))]
    /\ exit' = [exit EXCEPT ![s] = outcome]
    /\ UNCHANGED <<mouseVars, password, ctrlVars, listenerVars, owner, authed, received, processed>>

\* A setup whose failure returns without the send.
SessionSetupFailsSilent(s, outcome, a) ==
    /\ spc[s] = "setup"
    /\ a \in FreeAddrs(s)
    /\ Fault(TRUE)
    /\ peer_addr' = [peer_addr EXCEPT ![s] = IF "peer_addr" \in Passed(outcome) THEN a ELSE @]
    /\ spc' = [spc EXCEPT ![s] = "done"]
    /\ exit' = [exit EXCEPT ![s] = outcome]
    /\ UNCHANGED <<mouseVars, password, clients, ctrlVars, listenerVars, owner, authed, received,
                   processed, sessionSent>>

\* request.accept(), client.peer_addr() or client.split() fails: a Warning and the
\* return.
SessionSetupFails(s, outcome, a) ==
    /\ spc[s] = "setup"
    /\ a \in FreeAddrs(s)
    /\ Fault(TRUE)
    /\ peer_addr' = [peer_addr EXCEPT ![s] = IF "peer_addr" \in Passed(outcome) THEN a ELSE @]
    /\ spc' = [spc EXCEPT ![s] = "done"]
    /\ sessionSent' = [sessionSent EXCEPT ![s] = Append(@, SetupWarning(outcome))]
    /\ exit' = [exit EXCEPT ![s] = outcome]
    /\ UNCHANGED <<mouseVars, password, clients, ctrlVars, listenerVars, owner, authed, received,
                   processed>>

\* An insert that keeps the entry the key already has (a multimap).
RegisterKeep(map, k, v) == map \cup {<<k, v>>}

\* The insert of the session's block under the clients mutex.
Register(map, k, v) == insert(map, k, v)

\* The three setup steps succeed (they touch nothing but the connection), then the
\* block that locks clients and inserts ws_sender under peer_addr, then
\* create_stream_handler() and the initialisation of authed.
SessionRegister(s, a, ok) ==
    /\ spc[s] = "setup"
    /\ a \in FreeAddrs(s)
    /\ lock = "free"
    /\ peer_addr' = [peer_addr EXCEPT ![s] = a]
    /\ clients' = Register(clients, a, s)
    /\ Fault(~ok)
    /\ IF ok
       THEN /\ spc' = [spc EXCEPT ![s] = "loop"]
            /\ authed' = [authed EXCEPT ![s] = is_none(password)]
            /\ UNCHANGED <<sessionSent, exit>>
       ELSE /\ spc' = [spc EXCEPT ![s] = "done"]
            /\ sessionSent' =
                   [sessionSent EXCEPT ![s] = Append(@, Error("Failed to create stream handler"))]
            /\ exit' = [exit EXCEPT ![s] = "create_err"]
            /\ UNCHANGED authed
    /\ UNCHANGED <<mouseVars, password, ctrlVars, listenerVars, owner, received, processed>>

TotalReceived == LET sum[n \in 0..MaxConn] ==
                         IF n = 0 THEN 0 ELSE Len(received[n]) + sum[n - 1]
                 IN sum[MaxConn]

\* A handler that is called twice on the message.
processTwice(handled, msg) == handled \o <<msg, msg>>

\* stream_handler.process(ws_sender.clone(), &msg): the call returns before the loop
\* goes on; handled is the sequence of the messages the handler was called with.
process(handled, msg) == Append(handled, msg)

\* A gate that takes any text frame for the password.
AuthGateAnyText(msg, pass) ==
    IF msg[1] = "Text" THEN <<TRUE, FALSE>> ELSE <<FALSE, FALSE>>

\* A gate that closes the connection on any frame but the password.
AuthGateStrict(msg, pass) ==
    IF msg[1] = "Text" /\ msg[2] = pass THEN <<TRUE, FALSE>> ELSE <<FALSE, TRUE>>

\* The authentication branch of the loop body: <<authed', return?>>.
AuthGate(msg, pass) ==
    IF msg[1] = "Text"
    THEN IF msg[2] = pass THEN <<TRUE, FALSE>> ELSE <<FALSE, TRUE>>
    ELSE <<FALSE, FALSE>>

\* One iteration of the message loop on Ok(msg).
SessionMsg(s, msg) ==
    /\ spc[s] = "loop"
    /\ TotalReceived < MaxMsgs
    /\ received' = [received EXCEPT ![s] = Append(@, msg)]
    /\ IF ~authed[s]
       THEN LET gate == AuthGate(msg, unwrap_or(password, "")) IN
            /\ authed' = [authed EXCEPT ![s] = gate[1]]
            /\ UNCHANGED processed
            /\ IF gate[2]
               THEN /\ spc' = [spc EXCEPT ![s] = "done"]
                    /\ exit' = [exit EXCEPT ![s] = "auth_mismatch"]
               ELSE IF is_close(msg)
                    THEN /\ spc' = [spc EXCEPT ![s] = "done"]
                         /\ exit' = [exit EXCEPT ![s] = "close"]
                    ELSE UNCHANGED <<spc, exit>>
       ELSE /\ processed' = [processed EXCEPT ![s] = process(@, msg)]
            /\ UNCHANGED authed
            /\ IF is_close(msg)
               THEN /\ spc' = [spc EXCEPT ![s] = "done"]
                    /\ exit' = [exit EXCEPT ![s] = "close"]
               ELSE UNCHANGED <<spc, exit>>
    /\ UNCHANGED <<mouseVars, password, faults, clients, ctrlVars, listenerVars, owner, peer_addr,
                   sessionSent>>

\* A read error that brings down every session in its message loop.
SessionReadErrAll(s) ==
    /\ spc[s] = "loop"
    /\ spc' = [u \in Sessions |-> IF spc[u] = "loop" THEN "done" ELSE spc[u]]
    /\ exit' = [u \in Sessions |-> IF spc[u] = "loop" THEN "read_err" ELSE exit[u]]
    /\ Fault(TRUE)
    /\ UNCHANGED <<mouseVars, password, clients, ctrlVars, listenerVars, owner, peer_addr,
                   authed, received, processed, sessionSent>>

\* A read error whose exit path prunes the session's entry from clients.
SessionReadErrPrune(s) ==
    /\ spc[s] = "loop"
    /\ lock = "free"
    /\ clients' = {e \in clients : e[1] # peer_addr[s]}
    /\ spc' = [spc EXCEPT ![s] = "done"]
    /\ exit' = [exit EXCEPT ![s] = "read_err"]
    /\ Fault(TRUE)
    /\ UNCHANGED <<mouseVars, password, ctrlVars, listenerVars, owner, peer_addr,
                   authed, received, processed, sessionSent>>

\* One iteration of the message loop on Err(err): warn! and return.
SessionReadErr(s) ==
    /\ spc[s] = "loop"
    /\ spc' = [spc EXCEPT ![s] = "done"]
    /\ exit' = [exit EXCEPT ![s] = "read_err"]
    /\ Fault(TRUE)
    /\ UNCHANGED <<mouseVars, password, clients, ctrlVars, listenerVars, owner, peer_addr,
                   authed, received, processed, sessionSent>>

Session(s) ==
    \/ \E outcome \in SetupErrs, a \in PeerAddrs : SessionSetupFails(s, outcome, a)
    \/ \E a \in PeerAddrs, ok \in BOOLEAN : SessionRegister(s, a, ok)
    \/ \E msg \in OwnedMessages : SessionMsg(s, msg)
    \/ SessionReadErr(s)

\* ------------------------------------------------------------- Mouse::send_event
\* autopilot's screen_size(), here a screen of two by two, and the geometries
\* winfo.geometry() can return, relative to the screen: the whole screen, and a
\* window of no extent at its far corner.
screen_size == [width |-> 2, height |-> 2]
Geometries ==
    {[x |-> 0, y |-> 0, width |-> 1, height |-> 1],
     [x |-> 1, y |-> 1, width |-> 0, height |-> 0]}

\* What the platform answers to one send_event: the first call that fails, if any.
PlatformOutcomes(os) ==
    IF os = "linux"
    THEN {"activate_err", "geometry_err", "move_err", "ok"}
    ELSE {"move_err", "ok"}

\* The point handed to mouse::move_to.
MoveTarget(os, event, g) ==
    IF os = "linux"
    THEN <<(event.x * g.width + g.x) * screen_size.width,
           (event.y * g.height + g.y) * screen_size.height>>
    ELSE <<event.x * screen_size.width, event.y * screen_size.height>>

\* A guard that lets every event through.
DiscardedNever(event) == FALSE

\* The early return of send_event.
Discarded(event) == ~event.is_primary

\* The match on event_type: the mouse::toggle calls, in order.
Toggles(event) ==
    CASE event.event_type = "DOWN" ->
             CASE event.button = "PRIMARY" -> <<<<"toggle", "Left", TRUE>>>>
               [] event.button = "AUXILARY" -> <<<<"toggle", "Middle", TRUE>>>>
               [] event.button = "SECONDARY" -> <<<<"toggle", "Right", TRUE>>>>
               [] OTHER -> <<>>
      [] event.event_type = "UP" ->
             <<<<"toggle", "Left", FALSE>>, <<"toggle", "Middle", FALSE>>,
               <<"toggle", "Right", FALSE>>>>
      [] OTHER -> <<>>

\* The buttons that are down once the toggles were applied in order.
RECURSIVE Apply(_, _)
Apply(down, toggles) ==
    IF toggles = <<>> THEN down
    ELSE Apply(IF toggles[1][3] THEN down \cup {toggles[1][2]} ELSE down \ {toggles[1][2]},
               Tail(toggles))

\* The calls up to and including move_to, by build and outcome.
MoveCalls(os, outcome, target) ==
    CASE os = "linux" /\ outcome = "activate_err" -> <<<<"activate">>>>
      [] os = "linux" /\ outcome = "geometry_err" -> <<<<"activate">>, <<"geometry">>>>
      [] os = "linux" -> <<<<"activate">>, <<"geometry">>, <<"move_to", target>>>>
      [] OTHER -> <<<<"move_to", target>>>>

MouseWarning(outcome) ==
    CASE outcome = "activate_err" -> "Failed to activate window, sending no input"
      [] outcome = "geometry_err" -> "Failed to get window geometry, sending no input"
      [] outcome = "move_err" -> "Could not move mouse"
      [] OTHER -> ""

\* One call of send_event, with what the platform answers.
send_event(event, outcome, g) ==
    /\ nevents < MaxEvents
    /\ event \in PointerEvents
    /\ outcome \in PlatformOutcomes(target_os)
    /\ g \in Geometries
    /\ nevents' = nevents + 1
    /\ lastEvent' = event
    /\ IF Discarded(event)
       THEN /\ calls' = <<>>
            /\ warned' = ""
            /\ UNCHANGED <<pressed, pointer>>
       ELSE LET target == MoveTarget(target_os, event, g) IN
            /\ warned' = MouseWarning(outcome)
            /\ IF outcome \in {"activate_err", "geometry_err"}
               THEN /\ calls' = MoveCalls(target_os, outcome, target)
                    /\ UNCHANGED <<pressed, pointer>>
               ELSE /\ calls' = MoveCalls(target_os, outcome, target) \o Toggles(event)
                    /\ pointer' = IF outcome = "move_err" THEN pointer ELSE target
                    /\ pressed' = Apply(pressed, Toggles(event))
    /\ UNCHANGED <<target_os, password, faults, clients, ctrlVars, listenerVars, sessionVars>>

\* The events come from the pointer stream handler, one call at a time.
MouseNext == \E event \in PointerEvents, outcome \in PlatformOutcomes(target_os),
                g \in Geometries : send_event(event, outcome, g)

MouseInit ==
    /\ password = None
    /\ ServerInit
    /\ \E os \in {"linux", "other"} : MouseNew(os)

MouseSpec == MouseInit /\ [][MouseNext]_vars

\* ------------------------------------------------------------- specification
Next ==
    \/ Ctrl
    \/ \E l \in Listeners : Listener(l)
    \/ \E s \in Sessions : Session(s)

Spec == Init /\ [][Next]_vars

\* The scheduler runs the control thread and the listener threads whenever they can
\* take a step; clients and the host process are under no obligation, and the
\* platform need not fail.
FairSpec ==
    /\ Init
    /\ [][Next]_vars
    /\ WF_vars(CtrlBroadcast)
    /\ \A l \in Listeners : WF_vars(ListenerRun(l))

\* ------------------------------------------------------------- properties
\* Index of the first text frame of a sequence of messages, 0 when it has none.
FirstText(seq) ==
    IF \E i \in 1..Len(seq) : seq[i][1] = "Text"
    THEN CHOOSE i \in 1..Len(seq) :
             seq[i][1] = "Text" /\ \A j \in 1..(i - 1) : seq[j][1] # "Text"
    ELSE 0

\* C1: with a password configured, a session hands no message to process before it
\* has received a text frame equal to the password: while it has received no text
\* frame nothing is processed and it is not authenticated; a first text frame equal
\* to the password makes it authenticated and only later frames are processed; any
\* other first text frame ends the session at that frame with nothing processed.
C1_AuthBeforeProcess ==
    password # None =>
        \A s \in Sessions :
            LET i == FirstText(received[s]) IN
            /\ i = 0 => processed[s] = <<>> /\ ~authed[s]
            /\ (i > 0 /\ received[s][i] = Text(password[1])) =>
                   /\ authed[s]
                   /\ Len(processed[s]) <= Len(received[s]) - i
            /\ (i > 0 /\ received[s][i] # Text(password[1])) =>
                   /\ spc[s] = "done"
                   /\ exit[s] = "auth_mismatch"
                   /\ Len(received[s]) = i
                   /\ processed[s] = <<>>

\* One session was authenticated by the password and processed the next frame.
C1_Witness ==
    /\ password # None
    /\ \E s \in Sessions :
           /\ Len(received[s]) = 2
           /\ received[s][1] = Text(password[1])
           /\ processed[s] = <<received[s][2]>>

\* Another first text frame closed a session.
C1_WitnessMismatch ==
    /\ password # None
    /\ \E s \in Sessions : received[s] = <<Text("wrong")>> /\ exit[s] = "auth_mismatch"

\* C2: without a password a session is authenticated as soon as its stream handler
\* is built, and every frame it receives, the first one included and whatever its
\* type, is handed to process: no frame is consumed by authentication.
C2_NoPasswordActive ==
    password = None =>
        \A s \in Sessions :
            /\ spc[s] = "loop" => authed[s]
            /\ processed[s] = received[s]

\* Without a password the first frame of a session, a text frame, was processed.
C2_Witness ==
    /\ password = None
    /\ \E s \in Sessions :
           /\ Len(received[s]) = 1
           /\ received[s][1][1] = "Text"
           /\ processed[s] = received[s]

\* C3: the control thread, once recv() has returned, holds the clients mutex until
\* it terminates, calls shutdown_all exactly once on every entry of clients, sends
\* one Error message per failed call and goes on with the other entries, and sets
\* the flag only when no entry is left, then terminates.
C3_Broadcast ==
    /\ ctrlPc = "recv" =>
           ~shutdown /\ lock = "free" /\ \A h \in Sessions : closeCalls[h] = 0
    /\ ctrlPc = "iter" =>
           /\ lock = "ctrl"
           /\ ~shutdown
           /\ todo \subseteq clients
           /\ \A e \in clients : closeCalls[e[2]] = IF e \in todo THEN 0 ELSE 1
    /\ ctrlPc = "done" => shutdown /\ todo = {} /\ lock = "free"
    /\ shutdown => ctrlPc = "done"
    /\ \A h \in Sessions : closeCalls[h] <= 1
    /\ closeFailed \subseteq {h \in Sessions : closeCalls[h] = 1}
    /\ ctrlSent = [i \in 1..Cardinality(closeFailed) |->
                       Error("Could not shutdown websocket")]

\* The broadcast visited two entries, the call on one of them failed, and the
\* thread terminated.
C3_Witness ==
    /\ ctrlPc = "done"
    /\ Cardinality(clients) = 2
    /\ \A e \in clients : closeCalls[e[2]] = 1
    /\ closeFailed # {}

\* C4: once the shutdown has been handled, that is the flag is true and both
\* listeners have terminated, every entry of clients has had shutdown_all called on
\* its ws_sender.
C4_AllRegisteredClosed ==
    (shutdown /\ \A l \in Listeners : lpc[l] = "done") =>
        \A e \in clients : closeCalls[e[2]] >= 1

\* C5, as claimed: once recv() has returned in the control thread, both listeners
\* eventually terminate.
C5_ListenersTerminate ==
    (ctrlPc # "recv") ~> (\A l \in Listeners : lpc[l] = "done")

\* C5, amended: once recv() has returned in the control thread, every listener
\* eventually terminates unless its socket was left blocking by a failed
\* set_nonblocking.
C5_NonblockingListenersTerminate ==
    (ctrlPc # "recv") ~> (\A l \in Listeners : lpc[l] = "done" \/ server[l] = "blocking")

\* Both listeners, on non-blocking sockets, terminated after the shutdown while a
\* session was in its message loop.
C5_Witness ==
    /\ shutdown
    /\ \A l \in Listeners : lpc[l] = "done" /\ server[l] = "nonblocking"
    /\ \E s \in Sessions : spc[s] = "loop"

\* C6: the flag starts false, never goes back from true to false, and changes only
\* in the step of the control thread that ends its loop over clients.
C6_FlagMonotonic ==
    /\ ~shutdown
    /\ [][/\ shutdown => shutdown'
          /\ shutdown' # shutdown =>
                 ctrlPc = "iter" /\ todo = {} /\ ctrlPc' = "done"]_vars

\* The flag is true and a listener has read it and terminated.
C6_Witness ==
    /\ shutdown
    /\ \E l \in Listeners :
           lpc[l] = "done" /\ listenerSent[l] = <<Info("Shutting down websocket")>>

\* C7: a listener whose bind succeeded has left its loop only if the flag is true;
\* an accept that fails while the flag is false sends it back to the sleep.
C7_LeavesLoopOnlyOnShutdown ==
    \A l \in Listeners :
        (lpc[l] = "done" /\ server[l] \in {"blocking", "nonblocking"}) => shutdown

\* A listener left its loop through the Err(_) arm of accept: it is done and has sent
\* no Info message.
C7_Witness ==
    \E l \in Listeners :
        lpc[l] = "done" /\ server[l] = "nonblocking" /\ listenerSent[l] = <<>>

\* C8: a listener whose bind failed has terminated, has sent the one Error message
\* and nothing else, has accepted nothing and spawned no session, and the step of the
\* failure changes neither clients, the flag nor the other listener, which can still
\* accept a connection and spawn its session.
C8_BindFailure ==
    /\ [](\A l \in Listeners :
             server[l] = "failed" =>
                 /\ lpc[l] = "done"
                 /\ listenerSent[l] = <<Error("Failed binding to socket")>>
                 /\ lateAccepts[l] = 0
                 /\ \A s \in Sessions : owner[s] # l
                 /\ \A m \in Listeners \ {l} :
                        (lpc[m] = "accept" /\ nspawned < MaxConn) => ENABLED AcceptOk(m))
    /\ [][\A l \in Listeners :
              (server[l] = "unbound" /\ server'[l] = "failed") =>
                  /\ UNCHANGED <<clients, ctrlVars, sessionVars>>
                  /\ \A m \in Listeners \ {l} :
                         /\ lpc'[m] = lpc[m]
                         /\ server'[m] = server[m]
                         /\ listenerSent'[m] = listenerSent[m]]_vars

\* The bind of one listener failed and the other listener has spawned a session
\* that registered.
C8_Witness ==
    \E l \in Listeners :
        /\ server[l] = "failed"
        /\ \E s \in Sessions : owner[s] # l /\ owner[s] # NoListener /\ spc[s] = "loop"

\* C9: the ws_sender of a session is in clients only once its handshake, its
\* address lookup and its split have succeeded, under its own peer address, and a
\* session that ends on the failure of one of the three leaves clients unchanged.
C9_RegisterAfterSetup ==
    /\ [](\A s \in Sessions :
             s \in Values(clients) =>
                 /\ spc[s] \in {"loop", "done"}
                 /\ exit[s] \notin SetupErrs
                 /\ <<peer_addr[s], s>> \in clients)
    /\ [][/\ (\E s \in Sessions : exit[s] = "" /\ exit'[s] \in SetupErrs) =>
                 clients' = clients
          /\ clients' # clients =>
                 \E s \in Sessions :
                     /\ spc[s] = "setup"
                     /\ spc'[s] \in {"loop", "done"}
                     /\ exit'[s] \notin SetupErrs
                     /\ clients' = insert(clients, peer_addr'[s], s)]_vars

\* One session ended on a failed split and another one registered.
C9_Witness ==
    \E s, u \in Sessions :
        /\ exit[s] = "split_err"
        /\ s \notin Values(clients)
        /\ u \in Values(clients)

\* C10: clients never holds two entries of one peer address, and the registration of
\* a session puts its ws_sender under its address, in place of the entry the address
\* had, if any: the number of entries grows only for a new address.
C10_OneEntryPerPeer ==
    /\ [](\A e1, e2 \in clients : e1[1] = e2[1] => e1 = e2)
    /\ [][\A s \in Sessions :
              (spc[s] = "setup" /\ spc'[s] # "setup" /\ exit'[s] \notin SetupErrs) =>
                  /\ <<peer_addr'[s], s>> \in clients'
                  /\ Cardinality(clients') =
                         IF peer_addr'[s] \in Keys(clients)
                         THEN Cardinality(clients)
                         ELSE Cardinality(clients) + 1]_vars

\* Two sessions registered under one peer address: the entry is the second one's.
C10_Witness ==
    \E s, u \in Sessions :
        /\ s # u
        /\ peer_addr[s] = peer_addr[u]
        /\ spc[s] \in {"loop", "done"} /\ exit[s] \notin SetupErrs
        /\ spc[u] \in {"loop", "done"} /\ exit[u] \notin SetupErrs
        /\ clients = {<<peer_addr[u], u>>}

\* A sequence is a prefix of another.
IsPrefix(p, q) == Len(p) <= Len(q) /\ \A i \in 1..Len(p) : p[i] = q[i]

\* Number of frames of a session's input that the authentication consumed or
\* dropped: none without a password, else all up to and including the first text
\* frame, and all of them while no text frame has come.
AuthFrames(s) ==
    IF password = None THEN 0
    ELSE IF FirstText(received[s]) = 0 THEN Len(received[s])
    ELSE FirstText(received[s])

\* C11: the messages handed to process by a session are always a prefix of the
\* frames it received after the authentication frame, in the order of arrival and
\* each once; a step hands at most one message to process, the one received in that
\* step, after the calls for the earlier ones have returned.
C11_SequentialProcessing ==
    /\ [](\A s \in Sessions :
             IsPrefix(processed[s],
                      SubSeq(received[s], AuthFrames(s) + 1, Len(received[s]))))
    /\ [][\A s \in Sessions :
              processed'[s] # processed[s] =>
                  /\ Len(received'[s]) = Len(received[s]) + 1
                  /\ processed'[s] = Append(processed[s], received'[s][Len(received'[s])])]_vars

\* A session was authenticated by the password or needed none, and has processed
\* two different frames or one frame after the password, in the order received.
C11_Witness ==
    \E s \in Sessions :
        /\ Len(received[s]) = 2
        /\ received[s][1] # received[s][2]
        /\ processed[s] # <<>>
        /\ processed[s][Len(processed[s])] = received[s][2]
        /\ password = None => processed[s] = received[s]

\* C12: a step of a session, whether it receives a frame or ends the session, leaves
\* every other session's processed messages, authentication state, input and
\* position as they are, and leaves the listeners where they are.
C12_Isolation ==
    [][\A s \in Sessions :
           (/\ spc[s] \in {"setup", "loop"}
            /\ received'[s] # received[s] \/ spc'[s] # spc[s]) =>
               /\ \A u \in Sessions \ {s} :
                      /\ processed'[u] = processed[u]
                      /\ authed'[u] = authed[u]
                      /\ received'[u] = received[u]
                      /\ spc'[u] = spc[u]
                      /\ exit'[u] = exit[u]
               /\ lpc' = lpc
               /\ server' = server]_vars

\* A session ended on a wrong password while another one, authenticated, is in its
\* message loop and both listeners run.
C12_Witness ==
    \E s, u \in Sessions :
        /\ s # u
        /\ exit[s] = "auth_mismatch"
        /\ spc[u] = "loop" /\ authed[u] /\ processed[u] = <<>>
        /\ \A l \in Listeners : lpc[l] \in {"sleep", "accept"}

\* The ways a session ends on a failure.
SessionFailures == SetupErrs \cup {"create_err", "auth_mismatch", "read_err"}

\* C13, as claimed: a session that ended on a failure has sent a message on its
\* Sender.
C13_EveryFailureReported ==
    \A s \in Sessions : exit[s] \in SessionFailures => sessionSent[s] # <<>>

\* C13, amended: a session that ended on a failed handshake, address lookup, split
\* or stream handler construction has sent exactly the message of that failure; a
\* session that ended on a wrong password or on a read error, and one that has not
\* failed, has sent nothing.
C13_SetupFailuresReported ==
    \A s \in Sessions :
        sessionSent[s] =
            CASE exit[s] \in SetupErrs -> <<SetupWarning(exit[s])>>
              [] exit[s] = "create_err" -> <<Error("Failed to create stream handler")>>
              [] OTHER -> <<>>

\* A session ended on a failed address lookup and has sent its Warning.
C13_Witness ==
    \E s \in Sessions :
        /\ exit[s] = "peer_addr_err"
        /\ sessionSent[s] = <<Warning("Failed to retrieve client address")>>

\* The returns of a session that come after its registration.
RegisteredExits == {"create_err", "auth_mismatch", "close", "read_err"}

\* C15: the peer addresses that have an entry in clients only grow, clients changes
\* only by the insert of a registering session, a session that ended after its
\* registration still has the entry of its peer address, and the control thread's
\* loop, when it starts, has that entry to visit.
C15_NoEntryRemoved ==
    /\ [](\A s \in Sessions :
             (spc[s] = "done" /\ exit[s] \in RegisteredExits) =>
                 peer_addr[s] \in Keys(clients))
    /\ [][/\ Keys(clients) \subseteq Keys(clients')
          /\ Cardinality(clients') >= Cardinality(clients)
          /\ clients' # clients =>
                 \E s \in Sessions, a \in PeerAddrs : clients' = insert(clients, a, s)
          /\ (ctrlPc = "recv" /\ ctrlPc' = "iter") =>
                 \A s \in Sessions :
                     (spc[s] = "done" /\ exit[s] \in RegisteredExits) =>
                         peer_addr[s] \in Keys(todo')]_vars

\* A session ended on the failure of the stream handler factory, and the broadcast
\* that came later called shutdown_all on its entry.
C15_Witness ==
    \E s \in Sessions :
        /\ exit[s] = "create_err"
        /\ <<peer_addr[s], s>> \in clients
        /\ closeCalls[s] = 1
        /\ ctrlPc = "done"

\* C16: a listener that was bound and has terminated has sent an Info message.
C16_InfoBeforeTermination ==
    \A l \in Listeners :
        (lpc[l] = "done" /\ server[l] \in {"blocking", "nonblocking"}) =>
            \E i \in 1..Len(listenerSent[l]) :
                listenerSent[l][i] = Info("Shutting down websocket")

\* Position of the first close frame in a sequence of messages, 0 when it has none.
FirstClose(seq) ==
    IF \E i \in 1..Len(seq) : seq[i][1] = "Close"
    THEN CHOOSE i \in 1..Len(seq) :
             seq[i][1] = "Close" /\ \A j \in 1..(i - 1) : seq[j][1] # "Close"
    ELSE 0

\* C17: a close frame is the last frame a session receives and ends it; if the
\* session was authenticated the close frame is the last message handed to process,
\* handed once, and if it was not nothing was handed to process; a session that has
\* ended, on a read error or otherwise, receives and processes nothing more.
C17_CloseEndsLoop ==
    /\ [](\A s \in Sessions :
             /\ FirstClose(received[s]) # 0 =>
                    /\ FirstClose(received[s]) = Len(received[s])
                    /\ spc[s] = "done"
                    /\ exit[s] = "close"
                    /\ IF authed[s]
                       THEN /\ processed[s] # <<>>
                            /\ FirstClose(processed[s]) = Len(processed[s])
                       ELSE processed[s] = <<>>
             /\ exit[s] = "close" => FirstClose(received[s]) # 0
             /\ exit[s] = "read_err" => spc[s] = "done")
    /\ [][\A s \in Sessions :
              spc[s] = "done" =>
                  /\ spc'[s] = "done"
                  /\ received'[s] = received[s]
                  /\ processed'[s] = processed[s]]_vars

\* With a password, a session was authenticated, then received a close frame, handed
\* it to process and ended.
C17_Witness ==
    /\ password # None
    /\ \E s \in Sessions :
           /\ received[s] = <<Text(password[1]), <<"Close", "">>>>
           /\ processed[s] = <<<<"Close", "">>>>
           /\ exit[s] = "close"

\* C19: in a session that is not authenticated, a frame that is neither a text frame
\* nor a close frame changes nothing but the input read; the session becomes
\* authenticated only on a text frame equal to the password and stays in its loop
\* then, and it ends, unauthenticated and with nothing processed, only on another
\* text frame, on a close frame or on a read error.
C19_AuthenticatingTransitions ==
    [][\A s \in Sessions :
           (spc[s] = "loop" /\ ~authed[s]) =>
               LET n == Len(received'[s])
                   got == received'[s] # received[s]
               IN
               /\ processed'[s] = <<>>
               /\ (got /\ received'[s][n][1] \notin {"Text", "Close"}) =>
                      /\ ~authed'[s]
                      /\ spc'[s] = "loop"
                      /\ exit'[s] = ""
                      /\ sessionSent'[s] = sessionSent[s]
               /\ authed'[s] =>
                      /\ got
                      /\ received'[s][n] = Text(unwrap_or(password, ""))
                      /\ spc'[s] = "loop"
               /\ spc'[s] # "loop" =>
                      /\ spc'[s] = "done"
                      /\ ~authed'[s]
                      /\ \/ exit'[s] = "auth_mismatch" /\ got /\ received'[s][n][1] = "Text"
                                                       /\ received'[s][n][2] # password[1]
                         \/ exit'[s] = "close" /\ got /\ received'[s][n][1] = "Close"
                         \/ exit'[s] = "read_err" /\ ~got]_vars

\* A binary frame came before the password: the session is authenticated, in its
\* loop, and has processed nothing.
C19_Witness ==
    /\ password # None
    /\ \E s \in Sessions :
           /\ received[s] = <<<<"Binary", "">>, Text(password[1])>>
           /\ authed[s]
           /\ spc[s] = "loop"
           /\ processed[s] = <<>>

\* C20: with the flag true a listener has at most one accept() return, so it spawns
\* at most one more session; a listener that has terminated stays terminated and
\* spawns no session.
C20_OneAcceptAfterShutdown ==
    /\ [](\A l \in Listeners : lateAccepts[l] <= 1)
    /\ [][\A l \in Listeners :
              /\ (shutdown /\ lateAccepts[l] = 1 /\ lpc[l] # lpc'[l]) => lpc'[l] = "done"
              /\ lpc[l] = "done" =>
                     /\ lpc'[l] = "done"
                     /\ lateAccepts'[l] = lateAccepts[l]
                     /\ \A s \in Sessions : owner'[s] = l => owner[s] = l]_vars

\* A listener's accept() returned a connection with the flag already true, it
\* spawned the session, read the flag at the top of the loop and terminated.
C20_Witness ==
    \E l \in Listeners :
        /\ lateAccepts[l] = 1
        /\ lpc[l] = "done"
        /\ listenerSent[l] = <<Info("Shutting down websocket")>>
        /\ \E s \in Sessions : owner[s] = l

\* C14: a send_event on an event that is not primary makes no platform call, no
\* window activation, no move and no toggle, logs nothing, and leaves the pointer
\* and the buttons as they were, whatever the event and whatever the platform would
\* have answered.
C14_NonPrimaryDiscarded ==
    /\ []((nevents > 0 /\ ~lastEvent.is_primary) => calls = <<>> /\ warned = "")
    /\ [][(nevents' # nevents /\ ~lastEvent'.is_primary) =>
              pressed' = pressed /\ pointer' = pointer]_vars

\* After a primary press of the first button moved the pointer, a press that is not
\* primary, of another button at another place, left the host as it was.
C14_Witness ==
    /\ nevents = 2
    /\ ~lastEvent.is_primary
    /\ lastEvent.event_type = "DOWN"
    /\ lastEvent.button = "SECONDARY"
    /\ lastEvent.x = 0
    /\ pressed = {"Left"}
    /\ pointer = <<2, 2>>
    /\ calls = <<>>

\* C18: a send_event whose pointer move failed has toggled no button.
C18_FailedMoveSkipsEvent ==
    (lastEvent.is_primary /\ warned = "Could not move mouse") =>
        \A i \in 1..Len(calls) : calls[i][1] # "toggle"

====
